---------------------------- MODULE Spec2Model ----------------------------
(***************************************************************************)
(* PyPzza: a single-user command-line pizza order tracker.                 *)
(*                                                                         *)
(*   src/src/order.py    the order engine: validation, price, status       *)
(*   src/src/storage.py  the order store: a JSON file rewritten whole      *)
(*   src/src/main.py     the interactive menu and its flows                *)
(*                                                                         *)
(* Conventions of the model                                                *)
(*   - a str that the code trims (customer_name) is a sequence of          *)
(*     one-character strings, so that strip() is computed; every other     *)
(*     str is a TLA+ string;                                               *)
(*   - money: the tables PIZZA_SIZES and TOPPING_PRICE are in thousandths  *)
(*     of the currency unit, and round(x, 2) turns thousandths into the    *)
(*     two-digit decimal, held as a whole number of cents. Python computes *)
(*     in binary floating point; for every entry of the tables and every   *)
(*     count of toppings the float error (< 1e-12) is far below half a     *)
(*     cent, and round(x, 2) returns the float nearest the exact cents;    *)
(*   - an exception is the "raised" field of an operation's result:        *)
(*     "none", or the Python exception class;                              *)
(*   - uuid.uuid4() is a fresh number (nextId), datetime.now() a clock     *)
(*     (now) that has moved on at the next reading.                        *)
(***************************************************************************)
EXTENDS Integers, Sequences, FiniteSets, TLC

VARIABLES
    file,               \* data/orders.json: [exists, parsable, orders, junk]
    nextId,             \* the next value of uuid.uuid4()
    now,                \* the value of datetime.now()
    order,              \* engine API: the order dictionary the caller holds
    call,               \* engine and store API: the last call, with its result
    pc,                 \* main.py: where the menu loop stands
    customer_name,      \* the name typed (main.py), or given to create_order
    size,               \* the size chosen (main.py), or given to create_order
    selected_toppings,  \* the toppings picked so far (main.py), or given
    last,               \* main.py: the flow that ran last, with its outcome
    advances,           \* history: order id -> successful status advances
    ppc,                \* two processes: each one's position in add_order
    porders,            \* two processes: each one's local list `orders`
    porder,             \* two processes: the order each one adds
    padds               \* two processes: the add_order calls each has begun

vars == <<file, nextId, now, order, call, pc, customer_name, size,
          selected_toppings, last, advances, ppc, porders, porder, padds>>

-----------------------------------------------------------------------------
(* Bounds of the model *)

\* uuid.uuid4() values handed out in one behaviour
MaxIds == 2
\* length of a toppings list given to the engine API
MaxToppings == 3
\* length of the persisted list in the store API specification
MaxStored == 2
\* add_order calls each of the two processes makes
MaxAdds == 1

-----------------------------------------------------------------------------
(* Python values *)

None == [tag |-> "None"]

Range(s) == {s[i] : i \in 1..Len(s)}

\* list.index(x), 0-based; callers check membership first (ValueError if absent)
index(s, x) == (CHOOSE i \in 1..Len(s) : s[i] = x /\ \A j \in 1..(i-1) : s[j] # x) - 1

Whitespace == {" "}

RECURSIVE lstrip(_)
lstrip(s) == IF s # <<>> /\ Head(s) \in Whitespace THEN lstrip(Tail(s)) ELSE s

RECURSIVE rstrip(_)
rstrip(s) ==
    IF s # <<>> /\ s[Len(s)] \in Whitespace
    THEN rstrip(SubSeq(s, 1, Len(s) - 1))
    ELSE s

\* str.strip()
strip(s) == rstrip(lstrip(s))

\* round(x, 2) of x thousandths: the cents, ties to the even cent
round2(x) ==
    LET q == x \div 10
        r == x % 10
    IN  IF r < 5 THEN q
        ELSE IF r > 5 THEN q + 1
        ELSE IF q % 2 = 0 THEN q ELSE q + 1

-----------------------------------------------------------------------------
(* order.py: the configuration tables *)

PIZZA_SIZES == [small |-> 10990, medium |-> 14990, large |-> 18990]

AVAILABLE_TOPPINGS ==
    <<"cheese", "pepperoni", "mushrooms", "onions",
      "sausage", "bacon", "green_peppers", "olives">>

TOPPING_PRICE == 1500

ORDER_STATES == <<"PENDING", "PREPARING", "READY", "DELIVERED">>

-----------------------------------------------------------------------------
(* order.py: the engine *)

Raise(kind, message, invalid) ==
    [raised |-> kind, message |-> message, invalid_toppings |-> invalid]

Ok == Raise("none", "", <<>>)

\* a plausible slip: the name is tested as typed, not trimmed
validate_order_data_untrimmed(name, sz, toppings) ==
    IF name = <<>>
    THEN Raise("ValueError", "Customer name cannot be empty", <<>>)
    ELSE IF sz \notin DOMAIN PIZZA_SIZES
    THEN Raise("ValueError", "Invalid size", <<>>)
    ELSE LET invalid_toppings ==
                 SelectSeq(toppings, LAMBDA t : t \notin Range(AVAILABLE_TOPPINGS))
         IN  IF invalid_toppings # <<>>
             THEN Raise("ValueError", "Invalid toppings", invalid_toppings)
             ELSE Ok

\* a plausible slip: the check stops at the first topping that is not allowed
validate_order_data_first(name, sz, toppings) ==
    IF strip(name) = <<>>
    THEN Raise("ValueError", "Customer name cannot be empty", <<>>)
    ELSE IF sz \notin DOMAIN PIZZA_SIZES
    THEN Raise("ValueError", "Invalid size", <<>>)
    ELSE LET invalid_toppings ==
                 SelectSeq(toppings, LAMBDA t : t \notin Range(AVAILABLE_TOPPINGS))
         IN  IF invalid_toppings # <<>>
             THEN Raise("ValueError", "Invalid toppings", <<Head(invalid_toppings)>>)
             ELSE Ok

validate_order_data(name, sz, toppings) ==
    IF strip(name) = <<>>
    THEN Raise("ValueError", "Customer name cannot be empty", <<>>)
    ELSE IF sz \notin DOMAIN PIZZA_SIZES
    THEN Raise("ValueError", "Invalid size", <<>>)
    ELSE LET invalid_toppings ==
                 SelectSeq(toppings, LAMBDA t : t \notin Range(AVAILABLE_TOPPINGS))
         IN  IF invalid_toppings # <<>>
             THEN Raise("ValueError", "Invalid toppings", invalid_toppings)
             ELSE Ok

\* a plausible slip: the surcharge is added once, not once per topping
calculate_price_flat(sz, toppings) ==
    LET base_price == PIZZA_SIZES[sz]
        toppings_price == IF Len(toppings) > 0 THEN TOPPING_PRICE ELSE 0
    IN  round2(base_price + toppings_price)

calculate_price(sz, toppings) ==
    LET base_price == PIZZA_SIZES[sz]
        toppings_price == Len(toppings) * TOPPING_PRICE
    IN  round2(base_price + toppings_price)

\* a plausible slip: duplicates are dropped from the list that is stored
RECURSIVE dedup(_)
dedup(s) ==
    IF s = <<>> THEN <<>>
    ELSE LET front == dedup(SubSeq(s, 1, Len(s) - 1))
         IN  IF s[Len(s)] \in Range(front) THEN front ELSE Append(front, s[Len(s)])

create_order_dedup(name, sz, toppings, uuid, time) ==
    LET v == validate_order_data(name, sz, toppings)
    IN  IF v.raised # "none"
        THEN [exc |-> v, ret |-> None]
        ELSE [exc |-> Ok,
              ret |-> [id            |-> uuid,
                       customer_name |-> strip(name),
                       pizza_size    |-> sz,
                       toppings      |-> dedup(toppings),
                       status        |-> "PENDING",
                       price         |-> calculate_price(sz, toppings),
                       created_at    |-> time]]

\* the result: what was raised, and the dictionary returned (None if raised)
create_order(name, sz, toppings, uuid, time) ==
    LET v == validate_order_data(name, sz, toppings)
    IN  IF v.raised # "none"
        THEN [exc |-> v, ret |-> None]
        ELSE [exc |-> Ok,
              ret |-> [id            |-> uuid,
                       customer_name |-> strip(name),
                       pizza_size    |-> sz,
                       toppings      |-> toppings,
                       status        |-> "PENDING",
                       price         |-> calculate_price(sz, toppings),
                       created_at    |-> time]]

\* a plausible slip: any move forward is accepted, not only one step
validate_status_transition_forward(current_status, new_status) ==
    IF current_status \notin Range(ORDER_STATES) \/ new_status \notin Range(ORDER_STATES)
    THEN Raise("ValueError", "is not in list", <<>>)
    ELSE IF index(ORDER_STATES, new_status) <= index(ORDER_STATES, current_status)
         THEN Raise("ValueError", "Invalid status transition", <<>>)
         ELSE Ok

\* The message of the ValueError is an f-string that reads
\* ORDER_STATES[current_idx + 1]: past the end of the list that read raises
\* IndexError before the ValueError is built.
validate_status_transition(current_status, new_status) ==
    IF current_status \notin Range(ORDER_STATES) \/ new_status \notin Range(ORDER_STATES)
    THEN Raise("ValueError", "is not in list", <<>>)
    ELSE LET current_idx == index(ORDER_STATES, current_status)
             new_idx == index(ORDER_STATES, new_status)
         IN  IF new_idx # current_idx + 1
             THEN IF current_idx + 1 < Len(ORDER_STATES)
                  THEN Raise("ValueError", "Invalid status transition", <<>>)
                  ELSE Raise("IndexError", "list index out of range", <<>>)
             ELSE Ok

\* a plausible slip: the transition is validated and the status never assigned
update_order_status_unassigned(o, new_status) ==
    IF new_status \notin Range(ORDER_STATES)
    THEN [exc |-> Raise("ValueError", "Invalid status", <<>>), order |-> o, ret |-> None]
    ELSE IF o.status # new_status
    THEN LET v == validate_status_transition(o.status, new_status)
         IN  IF v.raised # "none"
             THEN [exc |-> v, order |-> o, ret |-> None]
             ELSE [exc |-> Ok, order |-> o, ret |-> o]
    ELSE [exc |-> Ok, order |-> o, ret |-> o]

\* a plausible slip: the target is accepted in any letter case
update_order_status_anycase(o, new_status) ==
    LET target == IF new_status = "pending" THEN "PENDING" ELSE new_status
    IN  IF target \notin Range(ORDER_STATES)
        THEN [exc |-> Raise("ValueError", "Invalid status", <<>>), order |-> o, ret |-> None]
        ELSE IF o.status # target
        THEN LET v == validate_status_transition(o.status, target)
             IN  IF v.raised # "none"
                 THEN [exc |-> v, order |-> o, ret |-> None]
                 ELSE LET changed == [o EXCEPT !.status = target]
                      IN  [exc |-> Ok, order |-> changed, ret |-> changed]
        ELSE [exc |-> Ok, order |-> o, ret |-> o]

\* a plausible slip: the update stamps the order with a new time
update_order_status_restamped(o, new_status) ==
    IF new_status \notin Range(ORDER_STATES)
    THEN [exc |-> Raise("ValueError", "Invalid status", <<>>), order |-> o, ret |-> None]
    ELSE IF o.status # new_status
    THEN LET v == validate_status_transition(o.status, new_status)
         IN  IF v.raised # "none"
             THEN [exc |-> v, order |-> o, ret |-> None]
             ELSE LET changed == [o EXCEPT !.status = new_status,
                                           !.created_at = @ + 1]
                  IN  [exc |-> Ok, order |-> changed, ret |-> changed]
    ELSE [exc |-> Ok, order |-> o, ret |-> o]

\* a plausible slip: the transition is validated even when the status stays
update_order_status_always_validates(o, new_status) ==
    IF new_status \notin Range(ORDER_STATES)
    THEN [exc |-> Raise("ValueError", "Invalid status", <<>>), order |-> o, ret |-> None]
    ELSE LET v == validate_status_transition(o.status, new_status)
         IN  IF v.raised # "none"
             THEN [exc |-> v, order |-> o, ret |-> None]
             ELSE LET changed == [o EXCEPT !.status = new_status]
                  IN  [exc |-> Ok, order |-> changed, ret |-> changed]

\* The dictionary is changed in place: `order` is the caller's dictionary
\* after the call, `ret` the value returned (None if raised).
update_order_status(o, new_status) ==
    IF new_status \notin Range(ORDER_STATES)
    THEN [exc |-> Raise("ValueError", "Invalid status", <<>>), order |-> o, ret |-> None]
    ELSE IF o.status # new_status
    THEN LET v == validate_status_transition(o.status, new_status)
         IN  IF v.raised # "none"
             THEN [exc |-> v, order |-> o, ret |-> None]
             ELSE LET changed == [o EXCEPT !.status = new_status]
                  IN  [exc |-> Ok, order |-> changed, ret |-> changed]
    ELSE [exc |-> Ok, order |-> o, ret |-> o]

-----------------------------------------------------------------------------
(* storage.py: the store. The file data/orders.json is                      *)
(*   exists    whether the path exists                                      *)
(*   parsable  whether its text is JSON                                     *)
(*   orders    the list its text denotes, when it is JSON                   *)
(*   junk      which text it holds, when it is not JSON                     *)
(* json.dump writes the text of a list and json.load reads a text back:     *)
(* every value of an order (str, list of str, a float of two decimals)      *)
(* is read back as it was written.                                          *)

AbsentFile == [exists |-> FALSE, parsable |-> FALSE, orders |-> <<>>, junk |-> 0]

\* open(ORDERS_FILE, "w") and json.dump(value, file): the old text is gone
json_dump(value) == [exists |-> TRUE, parsable |-> TRUE, orders |-> value, junk |-> 0]

\* json.load(file)
json_load(f) ==
    IF f.parsable
    THEN [raised |-> "none", ret |-> f.orders]
    ELSE [raised |-> "JSONDecodeError", ret |-> <<>>]

ensure_storage_exists(f) == IF ~f.exists THEN json_dump(<<>>) ELSE f

\* a plausible slip: the unreadable file is replaced by an empty list, as the
\* warning printed says
load_orders_reset(f) ==
    LET g == ensure_storage_exists(f)
        r == json_load(g)
    IN  IF r.raised = "JSONDecodeError"
        THEN [file |-> json_dump(<<>>), raised |-> "none", ret |-> <<>>, warned |-> TRUE]
        ELSE [file |-> g, raised |-> "none", ret |-> r.ret, warned |-> FALSE]

\* the result: the file afterwards, the list returned, whether the warning
\* was printed
load_orders(f) ==
    LET g == ensure_storage_exists(f)
        r == json_load(g)
    IN  IF r.raised = "JSONDecodeError"
        THEN [file |-> g, raised |-> "none", ret |-> <<>>, warned |-> TRUE]
        ELSE [file |-> g, raised |-> "none", ret |-> r.ret, warned |-> FALSE]

\* the file afterwards
save_orders(f, orders) ==
    LET g == ensure_storage_exists(f)
    IN  json_dump(orders)

\* a plausible change: a file that could not be read is not overwritten
add_order_guarded(f, o) ==
    LET l == load_orders(f)
        orders == Append(l.ret, o)
    IN  IF l.warned
        THEN [file |-> l.file, ret |-> None, warned |-> l.warned]
        ELSE [file |-> save_orders(l.file, orders), ret |-> None, warned |-> l.warned]

\* a plausible slip: the list is extended and never written back
add_order_unsaved(f, o) ==
    LET l == load_orders(f)
    IN  [file |-> l.file, ret |-> None, warned |-> l.warned]

add_order(f, o) ==
    LET l == load_orders(f)
        orders == Append(l.ret, o)
    IN  [file |-> save_orders(l.file, orders), ret |-> None, warned |-> l.warned]

\* add_order in the steps another process can come between: the read
\* (load_orders, then the append to the local list) ...
add_order_read(f, o) ==
    LET l == load_orders(f)
    IN  [file |-> l.file, orders |-> Append(l.ret, o)]

\* a plausible change: the write happens under a lock that the read took too,
\* so that it extends what the file holds by then
add_order_write_locked(f, orders) ==
    save_orders(f, Append(load_orders(f).ret, orders[Len(orders)]))

\* ... and the write (save_orders of the local list)
add_order_write(f, orders) == save_orders(f, orders)

\* the positions of the records of a list whose id is order_id
Matches(orders, order_id) == {i \in 1..Len(orders) : orders[i].id = order_id}

First(S) == CHOOSE i \in S : \A j \in S : i <= j

\* a plausible slip: the record is replaced in the loaded list, the list is not saved
update_order_unsaved(f, order_id, updated_order) ==
    LET l == load_orders(f)
        m == Matches(l.ret, order_id)
    IN  IF m # {}
        THEN [file |-> l.file, ret |-> TRUE, warned |-> l.warned]
        ELSE [file |-> l.file, ret |-> FALSE, warned |-> l.warned]

\* a plausible slip: the loop does not return, every record of the id is replaced
update_order_all(f, order_id, updated_order) ==
    LET l == load_orders(f)
        m == Matches(l.ret, order_id)
    IN  IF m # {}
        THEN [file |-> save_orders(l.file, [k \in 1..Len(l.ret) |->
                           IF k \in m THEN updated_order ELSE l.ret[k]]),
              ret |-> TRUE, warned |-> l.warned]
        ELSE [file |-> l.file, ret |-> FALSE, warned |-> l.warned]

\* a plausible slip: the new record is appended, the old one kept
update_order_append(f, order_id, updated_order) ==
    LET l == load_orders(f)
        m == Matches(l.ret, order_id)
    IN  IF m # {}
        THEN [file |-> save_orders(l.file, Append(l.ret, updated_order)),
              ret |-> TRUE, warned |-> l.warned]
        ELSE [file |-> l.file, ret |-> FALSE, warned |-> l.warned]

\* a plausible slip: the list is written back whether or not a record matched
update_order_always_saves(f, order_id, updated_order) ==
    LET l == load_orders(f)
        m == Matches(l.ret, order_id)
    IN  IF m # {}
        THEN [file |-> save_orders(l.file, [l.ret EXCEPT ![First(m)] = updated_order]),
              ret |-> TRUE, warned |-> l.warned]
        ELSE [file |-> save_orders(l.file, l.ret), ret |-> FALSE, warned |-> l.warned]

\* the loop returns at the first match
update_order(f, order_id, updated_order) ==
    LET l == load_orders(f)
        m == Matches(l.ret, order_id)
    IN  IF m # {}
        THEN [file |-> save_orders(l.file, [l.ret EXCEPT ![First(m)] = updated_order]),
              ret |-> TRUE, warned |-> l.warned]
        ELSE [file |-> l.file, ret |-> FALSE, warned |-> l.warned]

get_order(f, order_id) ==
    LET l == load_orders(f)
        m == Matches(l.ret, order_id)
    IN  [file |-> l.file,
         ret |-> IF m # {} THEN l.ret[First(m)] ELSE None,
         warned |-> l.warned]

\* a plausible slip: the filter keeps the records of the id instead of the others
delete_order_inverted(f, order_id) ==
    LET l == load_orders(f)
        filtered_orders == SelectSeq(l.ret, LAMBDA o : o.id = order_id)
    IN  IF Len(filtered_orders) < Len(l.ret)
        THEN [file |-> save_orders(l.file, filtered_orders),
              ret |-> TRUE, warned |-> l.warned]
        ELSE [file |-> l.file, ret |-> FALSE, warned |-> l.warned]

\* a plausible slip: only the first record of the id is removed
delete_order_first(f, order_id) ==
    LET l == load_orders(f)
        m == Matches(l.ret, order_id)
        orders == [k \in 1..(Len(l.ret) - 1) |->
                      IF k < First(m) THEN l.ret[k] ELSE l.ret[k + 1]]
    IN  IF m # {}
        THEN [file |-> save_orders(l.file, orders), ret |-> TRUE, warned |-> l.warned]
        ELSE [file |-> l.file, ret |-> FALSE, warned |-> l.warned]

\* a plausible slip: the filtered list is written back whether or not it is
\* shorter
delete_order_always_saves(f, order_id) ==
    LET l == load_orders(f)
        initial_count == Len(l.ret)
        orders == SelectSeq(l.ret, LAMBDA o : o.id # order_id)
    IN  [file |-> save_orders(l.file, orders),
         ret |-> Len(orders) < initial_count, warned |-> l.warned]

delete_order(f, order_id) ==
    LET l == load_orders(f)
        initial_count == Len(l.ret)
        orders == SelectSeq(l.ret, LAMBDA o : o.id # order_id)
    IN  IF Len(orders) < initial_count
        THEN [file |-> save_orders(l.file, orders), ret |-> TRUE, warned |-> l.warned]
        ELSE [file |-> l.file, ret |-> FALSE, warned |-> l.warned]

-----------------------------------------------------------------------------
(* The inputs the specifications draw from *)

NameInputs == {<<>>, <<" ">>, <<"A">>, <<" ", "A", " ">>, <<"A", " ", "B">>}

SizeInputs == {"small", "medium", "large", "xl"}

ToppingNames == {"cheese", "olives", "bad1", "bad2"}

ToppingInputs == UNION {[1..n -> ToppingNames] : n \in 0..MaxToppings}

StatusInputs == Range(ORDER_STATES) \cup {"CANCELLED", "pending"}

Times == {0, 1}

NoCall ==
    [op |-> "none", customer_name |-> <<>>, size |-> "", toppings |-> <<>>,
     new_status |-> "", order_id |-> 0, arg |-> None, before |-> None,
     exc |-> Ok, ret |-> None, warned |-> FALSE]

\* the store API is given records that create_order made, some since advanced
StoredOrder(uuid, status) ==
    [create_order(<<"A">>, "small", <<>>, uuid, 0).ret EXCEPT !.status = status]

OrderInputs == {StoredOrder(i, st) : i \in 1..MaxIds, st \in {"PENDING", "PREPARING"}}

IdInputs == 1..MaxIds

ListInputs == UNION {[1..n -> OrderInputs] : n \in 0..1}

\* a text that is not JSON
GarbledFile(n) == [exists |-> TRUE, parsable |-> FALSE, orders |-> <<>>, junk |-> n]

-----------------------------------------------------------------------------
(* The engine API: a caller that creates one order from arguments it was     *)
(* given (customer_name, size, selected_toppings hold them) and then calls   *)
(* update_order_status on the dictionary it got, with any target.            *)

InitEngine ==
    /\ file = AbsentFile
    /\ nextId = 1
    /\ now \in Times
    /\ order = None
    /\ call = NoCall
    /\ pc = "engine"
    /\ customer_name \in NameInputs
    /\ size \in SizeInputs
    /\ selected_toppings \in ToppingInputs
    /\ last = "none"
    /\ advances = <<>>
    /\ ppc = <<>>
    /\ porders = <<>>
    /\ porder = <<>>
    /\ padds = <<>>

\* new_order = create_order(customer_name, size, toppings)
CallCreateOrder ==
    LET r == create_order(customer_name, size, selected_toppings, nextId, now)
    IN  /\ pc = "engine"
        /\ call.op = "none"
        /\ order' = r.ret
        /\ call' = [NoCall EXCEPT !.op = "create_order",
                                  !.customer_name = customer_name,
                                  !.size = size,
                                  !.toppings = selected_toppings,
                                  !.exc = r.exc, !.ret = r.ret]
        /\ nextId' = IF r.exc.raised = "none" THEN nextId + 1 ELSE nextId
        /\ now' = IF r.exc.raised = "none" THEN now + 1 ELSE now
        /\ UNCHANGED <<file, pc, customer_name, size, selected_toppings, last,
                       advances, ppc, porders, porder, padds>>

\* update_order_status(order, new_status)
CallUpdateOrderStatus ==
    \E new_status \in StatusInputs :
        LET r == update_order_status(order, new_status)
        IN  /\ pc = "engine"
            /\ order # None
            /\ order' = r.order
            /\ call' = [NoCall EXCEPT !.op = "update_order_status",
                                      !.new_status = new_status,
                                      !.before = order, !.exc = r.exc, !.ret = r.ret]
            /\ UNCHANGED <<file, nextId, now, pc, customer_name, size,
                           selected_toppings, last, advances, ppc, porders, porder,
                           padds>>

NextEngine == CallCreateOrder \/ CallUpdateOrderStatus

SpecEngine == InitEngine /\ [][NextEngine]_vars

-----------------------------------------------------------------------------
(* The store API: one caller, one call after another, on a file that is     *)
(* absent, empty, or was garbled by hand before the program started.        *)

InitStore ==
    /\ file \in {AbsentFile, json_dump(<<>>), GarbledFile(1), GarbledFile(2)}
    /\ nextId = 1
    /\ now = 0
    /\ order = None
    /\ call = NoCall
    /\ pc = "store"
    /\ customer_name = <<>>
    /\ size = ""
    /\ selected_toppings = <<>>
    /\ last = "none"
    /\ advances = <<>>
    /\ ppc = <<>>
    /\ porders = <<>>
    /\ porder = <<>>
    /\ padds = <<>>

StoreFrame ==
    UNCHANGED <<nextId, now, order, pc, customer_name, size, selected_toppings,
                last, advances, ppc, porders, porder, padds>>

CallLoadOrders ==
    LET r == load_orders(file)
    IN  /\ pc = "store"
        /\ file' = r.file
        /\ call' = [NoCall EXCEPT !.op = "load_orders", !.before = file,
                                  !.exc = Raise(r.raised, "", <<>>),
                                  !.ret = r.ret, !.warned = r.warned]
        /\ StoreFrame

CallSaveOrders ==
    \E orders \in ListInputs :
        /\ pc = "store"
        /\ file' = save_orders(file, orders)
        /\ call' = [NoCall EXCEPT !.op = "save_orders", !.before = file,
                                  !.arg = orders]
        /\ StoreFrame

CallAddOrder ==
    \E o \in OrderInputs :
        LET r == add_order(file, o)
        IN  /\ pc = "store"
            /\ Len(file.orders) < MaxStored
            /\ file' = r.file
            /\ call' = [NoCall EXCEPT !.op = "add_order", !.before = file,
                                      !.arg = o, !.order_id = o.id,
                                      !.ret = r.ret, !.warned = r.warned]
            /\ StoreFrame

CallUpdateOrder ==
    \E order_id \in IdInputs, updated_order \in OrderInputs :
        LET r == update_order(file, order_id, updated_order)
        IN  /\ pc = "store"
            /\ file' = r.file
            /\ call' = [NoCall EXCEPT !.op = "update_order", !.before = file,
                                      !.arg = updated_order, !.order_id = order_id,
                                      !.ret = r.ret, !.warned = r.warned]
            /\ StoreFrame

CallGetOrder ==
    \E order_id \in IdInputs :
        LET r == get_order(file, order_id)
        IN  /\ pc = "store"
            /\ file' = r.file
            /\ call' = [NoCall EXCEPT !.op = "get_order", !.before = file,
                                      !.order_id = order_id,
                                      !.ret = r.ret, !.warned = r.warned]
            /\ StoreFrame

CallDeleteOrder ==
    \E order_id \in IdInputs :
        LET r == delete_order(file, order_id)
        IN  /\ pc = "store"
            /\ file' = r.file
            /\ call' = [NoCall EXCEPT !.op = "delete_order", !.before = file,
                                      !.order_id = order_id,
                                      !.ret = r.ret, !.warned = r.warned]
            /\ StoreFrame

NextStore ==
    \/ CallLoadOrders
    \/ CallSaveOrders
    \/ CallAddOrder
    \/ CallUpdateOrder
    \/ CallGetOrder
    \/ CallDeleteOrder

SpecStore == InitStore /\ [][NextStore]_vars

-----------------------------------------------------------------------------
(* main.py: the menu loop and its flows. Prompt.ask with choices asks again *)
(* until the answer is one of them, so a size is always a key of            *)
(* PIZZA_SIZES and a menu choice one of the six.                            *)

\* what the user types at "Customer name"
CliNameInputs == {<<" ">>, <<" ", "A">>}

\* what the user picks at "Pizza size"
CliSizeInputs == DOMAIN PIZZA_SIZES

\* what the user types at "Enter topping number": Enter, a word, numbers
KeyInputs == {"", "x", "0", "1", "9"}

\* int(text): the numbers, for the texts that are numbers
IntOf == [k \in {"0", "1", "9"} |-> CASE k = "0" -> 0 [] k = "1" -> 1 [] k = "9" -> 9]

int(text) ==
    IF text \in DOMAIN IntOf
    THEN [raised |-> "none", ret |-> IntOf[text]]
    ELSE [raised |-> "ValueError", ret |-> 0]

NoAdvances == [i \in 1..MaxIds |-> 0]

Init ==
    /\ file \in {AbsentFile, json_dump(<<>>), GarbledFile(1)}
    /\ nextId = 1
    /\ now = 0
    /\ order = None
    /\ call = NoCall
    /\ pc = "menu"
    /\ customer_name = <<>>
    /\ size = ""
    /\ selected_toppings = <<>>
    /\ last = [flow |-> "none", outcome |-> "none"]
    /\ advances = NoAdvances
    /\ ppc = <<>>
    /\ porders = <<>>
    /\ porder = <<>>
    /\ padds = <<>>

CliFrame == UNCHANGED <<order, call, ppc, porders, porder, padds>>

\* choice "1", create_new_order up to the call of get_toppings
CreateNewOrderBegin ==
    \E name \in CliNameInputs, sz \in CliSizeInputs :
        /\ pc = "menu"
        /\ nextId <= MaxIds
        /\ pc' = "toppings"
        /\ customer_name' = name
        /\ size' = sz
        /\ selected_toppings' = <<>>
        /\ last' = [flow |-> "create_new_order", outcome |-> "asking"]
        /\ UNCHANGED <<file, nextId, now, advances>>
        /\ CliFrame

\* get_toppings: one round of its loop, for an answer that is not Enter
GetToppingsRound ==
    \E topping_number \in KeyInputs \ {""} :
        LET n == int(topping_number)
            idx == n.ret - 1
            chosen_topping == AVAILABLE_TOPPINGS[idx + 1]
        IN  /\ pc = "toppings"
            /\ selected_toppings' =
                   IF /\ n.raised = "none"
                      /\ 0 <= idx /\ idx < Len(AVAILABLE_TOPPINGS)
                      /\ chosen_topping \notin Range(selected_toppings)
                   THEN Append(selected_toppings, chosen_topping)
                   ELSE selected_toppings
            /\ UNCHANGED <<file, nextId, now, pc, customer_name, size, last, advances>>
            /\ CliFrame

\* Enter ends get_toppings; create_new_order goes on: create_order, add_order.
\* Only ValueError is caught; anything else ends the process.
CreateNewOrderEnd ==
    LET r == create_order(customer_name, size, selected_toppings, nextId, now)
        a == add_order(file, r.ret)
    IN  /\ pc = "toppings"
        /\ IF r.exc.raised = "none"
           THEN /\ file' = a.file
                /\ nextId' = nextId + 1
                /\ now' = now + 1
                /\ advances' = [advances EXCEPT ![r.ret.id] = 0]
                /\ pc' = "menu"
                /\ last' = [flow |-> "create_new_order", outcome |-> "created"]
           ELSE /\ UNCHANGED <<file, nextId, now, advances>>
                /\ pc' = IF r.exc.raised = "ValueError" THEN "menu" ELSE "crashed"
                /\ last' = [flow |-> "create_new_order", outcome |-> "rejected"]
        /\ customer_name' = <<>>
        /\ size' = ""
        /\ selected_toppings' = <<>>
        /\ CliFrame

CliLocals == UNCHANGED <<customer_name, size, selected_toppings>>

\* choice "2"
ListOrders ==
    LET l == load_orders(file)
    IN  /\ pc = "menu"
        /\ file' = l.file
        /\ last' = [flow |-> "list_orders", outcome |-> "listed"]
        /\ UNCHANGED <<nextId, now, pc, advances>>
        /\ CliLocals
        /\ CliFrame

\* a plausible slip: the test for the last state is off by one, so that for
\* a DELIVERED order ORDER_STATES[current_idx + 1] is read: IndexError
UpdateStatusLateFinal ==
    \E order_id \in IdInputs, confirm \in BOOLEAN :
        LET g == get_order(file, order_id)
            current_idx == index(ORDER_STATES, g.ret.status)
            next_status == ORDER_STATES[current_idx + 2]
            u == update_order_status(g.ret, next_status)
            w == update_order(g.file, order_id, u.ret)
        IN  /\ pc = "menu"
            /\ IF g.ret = None
               THEN /\ file' = g.file
                    /\ pc' = "menu"
                    /\ last' = [flow |-> "update_status", outcome |-> "not_found",
                                order_id |-> order_id]
                    /\ UNCHANGED advances
               ELSE IF g.ret.status \notin Range(ORDER_STATES)
               THEN /\ file' = g.file
                    /\ pc' = "crashed"
                    /\ last' = [flow |-> "update_status", outcome |-> "crashed",
                                order_id |-> order_id]
                    /\ UNCHANGED advances
               ELSE IF current_idx = Len(ORDER_STATES)
               THEN /\ file' = g.file
                    /\ pc' = "menu"
                    /\ last' = [flow |-> "update_status", outcome |-> "final",
                                order_id |-> order_id]
                    /\ UNCHANGED advances
               ELSE IF current_idx + 1 >= Len(ORDER_STATES)
               THEN /\ file' = g.file
                    /\ pc' = "crashed"
                    /\ last' = [flow |-> "update_status", outcome |-> "crashed",
                                order_id |-> order_id]
                    /\ UNCHANGED advances
               ELSE IF ~confirm
               THEN /\ file' = g.file
                    /\ pc' = "menu"
                    /\ last' = [flow |-> "update_status", outcome |-> "declined",
                                order_id |-> order_id]
                    /\ UNCHANGED advances
               ELSE IF u.exc.raised = "none"
               THEN /\ file' = w.file
                    /\ pc' = "menu"
                    /\ last' = [flow |-> "update_status", outcome |-> "updated",
                                order_id |-> order_id]
                    /\ advances' = [advances EXCEPT ![order_id] = @ + 1]
               ELSE /\ file' = g.file
                    /\ pc' = IF u.exc.raised = "ValueError" THEN "menu" ELSE "crashed"
                    /\ last' = [flow |-> "update_status", outcome |-> "refused",
                                order_id |-> order_id]
                    /\ UNCHANGED advances
            /\ UNCHANGED <<nextId, now>>
            /\ CliLocals
            /\ CliFrame

\* choice "3". ORDER_STATES.index(current_status) stands before the try.
UpdateStatus ==
    \E order_id \in IdInputs, confirm \in BOOLEAN :
        LET g == get_order(file, order_id)
            current_idx == index(ORDER_STATES, g.ret.status)
            next_status == ORDER_STATES[current_idx + 2]
            u == update_order_status(g.ret, next_status)
            w == update_order(g.file, order_id, u.ret)
        IN  /\ pc = "menu"
            /\ IF g.ret = None
               THEN /\ file' = g.file
                    /\ pc' = "menu"
                    /\ last' = [flow |-> "update_status", outcome |-> "not_found",
                                order_id |-> order_id]
                    /\ UNCHANGED advances
               ELSE IF g.ret.status \notin Range(ORDER_STATES)
               THEN /\ file' = g.file
                    /\ pc' = "crashed"
                    /\ last' = [flow |-> "update_status", outcome |-> "crashed",
                                order_id |-> order_id]
                    /\ UNCHANGED advances
               ELSE IF current_idx = Len(ORDER_STATES) - 1
               THEN /\ file' = g.file
                    /\ pc' = "menu"
                    /\ last' = [flow |-> "update_status", outcome |-> "final",
                                order_id |-> order_id]
                    /\ UNCHANGED advances
               ELSE IF ~confirm
               THEN /\ file' = g.file
                    /\ pc' = "menu"
                    /\ last' = [flow |-> "update_status", outcome |-> "declined",
                                order_id |-> order_id]
                    /\ UNCHANGED advances
               ELSE IF u.exc.raised = "none"
               THEN /\ file' = w.file
                    /\ pc' = "menu"
                    /\ last' = [flow |-> "update_status", outcome |-> "updated",
                                order_id |-> order_id]
                    /\ advances' = [advances EXCEPT ![order_id] = @ + 1]
               ELSE /\ file' = g.file
                    /\ pc' = IF u.exc.raised = "ValueError" THEN "menu" ELSE "crashed"
                    /\ last' = [flow |-> "update_status", outcome |-> "refused",
                                order_id |-> order_id]
                    /\ UNCHANGED advances
            /\ UNCHANGED <<nextId, now>>
            /\ CliLocals
            /\ CliFrame

\* choice "4"
ViewOrderDetails ==
    \E order_id \in IdInputs :
        LET g == get_order(file, order_id)
        IN  /\ pc = "menu"
            /\ file' = g.file
            /\ last' = [flow |-> "view_order_details",
                        outcome |-> IF g.ret = None THEN "not_found" ELSE "viewed"]
            /\ UNCHANGED <<nextId, now, pc, advances>>
            /\ CliLocals
            /\ CliFrame

\* choice "5"
DeleteOrderById ==
    \E order_id \in IdInputs :
        LET d == delete_order(file, order_id)
        IN  /\ pc = "menu"
            /\ file' = d.file
            /\ last' = [flow |-> "delete_order_by_id",
                        outcome |-> IF d.ret THEN "deleted" ELSE "not_found"]
            /\ advances' = IF d.ret THEN [advances EXCEPT ![order_id] = 0] ELSE advances
            /\ UNCHANGED <<nextId, now, pc>>
            /\ CliLocals
            /\ CliFrame

\* choice "6", confirmed
Exit ==
    /\ pc = "menu"
    /\ pc' = "exited"
    /\ last' = [flow |-> "main", outcome |-> "exited"]
    /\ UNCHANGED <<file, nextId, now, advances>>
    /\ CliLocals
    /\ CliFrame

Next ==
    \/ CreateNewOrderBegin
    \/ GetToppingsRound
    \/ CreateNewOrderEnd
    \/ ListOrders
    \/ UpdateStatus
    \/ ViewOrderDetails
    \/ DeleteOrderById
    \/ Exit

Spec == Init /\ [][Next]_vars

-----------------------------------------------------------------------------
(* Two processes of the program on the same file, each in the create flow:  *)
(* create_order, then add_order, whose read and write are separate steps.   *)
(* Each process draws its own uuid4; nextId keeps them distinct.            *)

Procs == {1, 2}

InitRace ==
    /\ file \in {AbsentFile, json_dump(<<>>), GarbledFile(1),
                 json_dump(<<StoredOrder(0, "READY")>>)}
    /\ nextId = 1
    /\ now = 0
    /\ order = None
    /\ call = NoCall
    /\ pc = "race"
    /\ customer_name = <<>>
    /\ size = ""
    /\ selected_toppings = <<>>
    /\ last = "none"
    /\ advances = <<>>
    /\ ppc = [p \in Procs |-> "idle"]
    /\ porders = [p \in Procs |-> <<>>]
    /\ porder = [p \in Procs |-> None]
    /\ padds = [p \in Procs |-> 0]

RaceFrame ==
    UNCHANGED <<order, call, pc, customer_name, size, selected_toppings, last,
                advances>>

\* new_order = create_order(...), and add_order is entered
RaceCreate(p) ==
    \E sz \in CliSizeInputs :
        LET r == create_order(<<"A">>, sz, <<>>, nextId, now)
        IN  /\ ppc[p] = "idle"
            /\ padds[p] < MaxAdds
            /\ porder' = [porder EXCEPT ![p] = r.ret]
            /\ porders' = [porders EXCEPT ![p] = <<>>]
            /\ padds' = [padds EXCEPT ![p] = @ + 1]
            /\ ppc' = [ppc EXCEPT ![p] = "read"]
            /\ nextId' = nextId + 1
            /\ UNCHANGED <<file, now>>
            /\ RaceFrame

\* orders = load_orders(); orders.append(order)
RaceRead(p) ==
    LET r == add_order_read(file, porder[p])
    IN  /\ ppc[p] = "read"
        /\ file' = r.file
        /\ porders' = [porders EXCEPT ![p] = r.orders]
        /\ ppc' = [ppc EXCEPT ![p] = "write"]
        /\ UNCHANGED <<nextId, now, porder, padds>>
        /\ RaceFrame

\* save_orders(orders), and add_order returns
RaceWrite(p) ==
    /\ ppc[p] = "write"
    /\ file' = add_order_write(file, porders[p])
    /\ ppc' = [ppc EXCEPT ![p] = "idle"]
    /\ UNCHANGED <<nextId, now, porder, porders, padds>>
    /\ RaceFrame

NextRace == \E p \in Procs : RaceCreate(p) \/ RaceRead(p) \/ RaceWrite(p)

SpecRace == InitRace /\ [][NextRace]_vars

-----------------------------------------------------------------------------
(* Claims about the engine, checked under SpecEngine *)

StatusIdx(o) == index(ORDER_STATES, o.status)

NoDuplicates(s) == \A i, j \in 1..Len(s) : s[i] = s[j] => i = j

UpdateCalled == call.op = "update_order_status"

CreateCalled == call.op = "create_order"

\* C1: whatever the target, a call of update_order_status leaves the status
\* where it was or moves it to exactly the next state of ORDER_STATES: never
\* backward, never past a state; a call that returns hands back that order.
C1_StatusStepsAtMostOne ==
    UpdateCalled =>
        /\ order.status \in Range(ORDER_STATES)
        /\ StatusIdx(order) \in {StatusIdx(call.before), StatusIdx(call.before) + 1}
        /\ [order EXCEPT !.status = call.before.status] = call.before
        /\ call.exc.raised = "none" => call.ret = order

\* C1 witness: an order advanced to PREPARING, then asked to go past READY
\* to DELIVERED: refused, the status stays.
C1_Witness ==
    /\ UpdateCalled
    /\ call.before.status = "PREPARING"
    /\ call.new_status = "DELIVERED"
    /\ order.status = "PREPARING"
    /\ call.exc.raised # "none"

\* C2: for every current status, DELIVERED included, a target of the enum
\* that is neither the current status nor the one after it makes
\* update_order_status raise ValueError and leaves the order as it was.
C2_IllegalTargetRaisesValueError ==
    ( /\ UpdateCalled
      /\ call.new_status \in Range(ORDER_STATES)
      /\ call.new_status # call.before.status
      /\ index(ORDER_STATES, call.new_status) # StatusIdx(call.before) + 1 )
    => /\ call.exc.raised = "ValueError"
       /\ order = call.before

\* C8 as claimed: create_order never returns a record in which a topping
\* appears twice.
C8_ReturnedToppingsNeverRepeat ==
    (CreateCalled /\ call.ret # None) => NoDuplicates(call.ret.toppings)

\* C8 amended: every record create_order returns has toppings that all belong
\* to AVAILABLE_TOPPINGS and are the list it was given, element for element:
\* free of duplicates exactly when the input is.
C8_ReturnedToppingsAreTheInput ==
    (CreateCalled /\ call.ret # None) =>
        /\ Range(call.ret.toppings) \subseteq Range(AVAILABLE_TOPPINGS)
        /\ call.ret.toppings = call.toppings
        /\ NoDuplicates(call.ret.toppings) <=> NoDuplicates(call.toppings)

\* C8 witness: a record returned for a list that names a topping twice.
C8_Witness ==
    /\ CreateCalled
    /\ call.ret # None
    /\ call.toppings = <<"cheese", "olives", "cheese">>
    /\ call.ret.toppings = <<"cheese", "olives", "cheese">>

BasePriceCents == [small |-> 1099, medium |-> 1499, large |-> 1899]

\* t is s without its leading and trailing whitespace
IsTrimOf(t, s) ==
    /\ t # <<>> => (t[1] \notin Whitespace /\ t[Len(t)] \notin Whitespace)
    /\ \E i \in 0..Len(s) :
          /\ i + Len(t) <= Len(s)
          /\ \A k \in 1..Len(t) : s[i + k] = t[k]
          /\ \A k \in 1..Len(s) : (k <= i \/ k > i + Len(t)) => s[k] \in Whitespace

ValidInput(name, sz, toppings) ==
    /\ \E k \in 1..Len(name) : name[k] \notin Whitespace
    /\ sz \in {"small", "medium", "large"}
    /\ Range(toppings) \subseteq Range(AVAILABLE_TOPPINGS)
    /\ NoDuplicates(toppings)

\* C9: for every valid input (a name not empty once trimmed, a size of the
\* table, toppings a duplicate-free part of the whitelist) create_order
\* returns a record with status PENDING, the trimmed name, and as price the
\* base price of the size plus 1.50 per topping, in cents
\* 1099/1499/1899 + 150 * |toppings|.
C9_ValidInputCreatesPricedPendingOrder ==
    (CreateCalled /\ ValidInput(call.customer_name, call.size, call.toppings)) =>
        /\ call.exc.raised = "none"
        /\ call.ret # None
        /\ call.ret.status = "PENDING"
        /\ IsTrimOf(call.ret.customer_name, call.customer_name)
        /\ call.ret.pizza_size = call.size
        /\ call.ret.price = BasePriceCents[call.size] + 150 * Len(call.toppings)

\* C9 witness: " A " orders a medium with cheese and olives: 17.99.
C9_Witness ==
    /\ CreateCalled
    /\ call.customer_name = <<" ", "A", " ">>
    /\ call.size = "medium"
    /\ call.toppings = <<"cheese", "olives">>
    /\ call.ret # None
    /\ call.ret.customer_name = <<"A">>
    /\ call.ret.price = 1799

\* C13: for an order in any of the four states, DELIVERED included,
\* update_order_status(order, order.status) raises nothing and returns the
\* order with every field, the status too, as it was.
C13_SelfTransitionIsNoOp ==
    (UpdateCalled /\ call.new_status = call.before.status) =>
        /\ call.exc.raised = "none"
        /\ call.ret = call.before
        /\ order = call.before

\* C13 witness: a DELIVERED order asked to become DELIVERED.
C13_Witness ==
    /\ UpdateCalled
    /\ call.before.status = "DELIVERED"
    /\ call.new_status = "DELIVERED"
    /\ call.ret = call.before

\* the k-th position, in rising order, of a set K of positions
NthOf(K, k) == CHOOSE i \in K : Cardinality({j \in K : j <= i}) = k

\* r is s restricted to its positions K, in the order of s
IsSelection(r, s, K) ==
    /\ Len(r) = Cardinality(K)
    /\ \A k \in 1..Len(r) : r[k] = s[NthOf(K, k)]

Whitelist ==
    {"cheese", "pepperoni", "mushrooms", "onions",
     "sausage", "bacon", "green_peppers", "olives"}

NameIsBlank(name) == \A k \in 1..Len(name) : name[k] \in Whitespace

\* C14: given a valid name and size and a toppings list with one or more
\* names outside the whitelist, validate_order_data raises a ValueError that
\* reports every such name of the list, in the order given, as often as it
\* occurs, and none of the allowed ones.
C14_AllInvalidToppingsReported ==
    ( /\ CreateCalled
      /\ ~NameIsBlank(call.customer_name)
      /\ call.size \in {"small", "medium", "large"}
      /\ \E i \in 1..Len(call.toppings) : call.toppings[i] \notin Whitelist )
    => /\ call.exc.raised = "ValueError"
       /\ call.exc.message = "Invalid toppings"
       /\ IsSelection(call.exc.invalid_toppings, call.toppings,
                      {i \in 1..Len(call.toppings) : call.toppings[i] \notin Whitelist})

\* C14 witness: cheese, bad1, bad2 on a small pizza: bad1 and bad2 reported.
C14_Witness ==
    /\ CreateCalled
    /\ call.size = "small"
    /\ call.toppings = <<"cheese", "bad1", "bad2">>
    /\ call.exc.invalid_toppings = <<"bad1", "bad2">>

InputIsRejectable(name, sz, toppings) ==
    \/ NameIsBlank(name)
    \/ sz \notin {"small", "medium", "large"}
    \/ \E i \in 1..Len(toppings) : toppings[i] \notin Whitelist

\* C15: validate_order_data, and with it create_order, which then returns no
\* record, raises ValueError exactly when the name is empty once trimmed, or
\* the size is not one of the table, or some topping is not in the whitelist;
\* for every other input, a repeated topping included, it succeeds.
C15_RejectedExactlyWhenInvalid ==
    CreateCalled =>
        IF InputIsRejectable(call.customer_name, call.size, call.toppings)
        THEN call.exc.raised = "ValueError" /\ call.ret = None /\ order = None
        ELSE call.exc.raised = "none" /\ call.ret # None /\ order = call.ret

\* C15 witness: a name of one blank, all else valid, is rejected.
C15_Witness ==
    /\ CreateCalled
    /\ call.customer_name = <<" ">>
    /\ call.size = "large"
    /\ call.toppings = <<"olives">>
    /\ call.exc.raised = "ValueError"
    /\ call.exc.message = "Customer name cannot be empty"

SameButStatus(a, b) ==
    /\ a.id = b.id
    /\ a.customer_name = b.customer_name
    /\ a.pizza_size = b.pizza_size
    /\ a.toppings = b.toppings
    /\ a.price = b.price
    /\ a.created_at = b.created_at

\* C16: a successful update_order_status changes the status field only: id,
\* customer_name, pizza_size, toppings, price and created_at of the order
\* returned are those of the order before the call. So through all its
\* lifecycle an order keeps the id and the time it got at creation, and the
\* price computed then.
C16_UpdateChangesStatusOnly ==
    /\ (UpdateCalled /\ call.exc.raised = "none") =>
           /\ SameButStatus(call.ret, call.before)
           /\ DOMAIN call.ret = DOMAIN call.before
    /\ order # None =>
           /\ order.id = nextId - 1
           /\ order.created_at = now - 1
           /\ order.pizza_size = size
           /\ order.toppings = selected_toppings
           /\ IsTrimOf(order.customer_name, customer_name)
           /\ order.price = BasePriceCents[size] + 150 * Len(selected_toppings)

\* C16 witness: an order with two toppings, advanced to DELIVERED, still at
\* its creation-time price.
C16_Witness ==
    /\ UpdateCalled
    /\ call.exc.raised = "none"
    /\ call.before.status = "READY"
    /\ order.status = "DELIVERED"
    /\ order.toppings = <<"olives", "cheese">>
    /\ order.pizza_size = "large"
    /\ order.price = 2199

\* C17: for every order and every target that is not one of the four
\* statuses, as written in ORDER_STATES, update_order_status raises
\* ValueError and leaves the order as it was.
C17_UnknownTargetRaisesValueError ==
    ( /\ UpdateCalled
      /\ call.new_status \notin {"PENDING", "PREPARING", "READY", "DELIVERED"} )
    => /\ call.exc.raised = "ValueError"
       /\ call.exc.message = "Invalid status"
       /\ call.ret = None
       /\ order = call.before

\* C17 witness: a PENDING order asked to become "pending".
C17_Witness ==
    /\ UpdateCalled
    /\ call.before.status = "PENDING"
    /\ call.new_status = "pending"
    /\ call.exc.raised = "ValueError"
    /\ order.status = "PENDING"

-----------------------------------------------------------------------------
(* Claims about the store, checked under SpecStore *)

\* the collection a file holds for the program: what load_orders returns
Persisted(f) == IF f.exists /\ f.parsable THEN f.orders ELSE <<>>

Ids(orders) == {orders[i].id : i \in 1..Len(orders)}

UniqueIds(orders) == \A i, j \in 1..Len(orders) : orders[i].id = orders[j].id => i = j

\* C4 as claimed: after any sequence of add_order, update_order and
\* delete_order calls no two persisted records have the same id.
C4_PersistedIdsUnique == UniqueIds(Persisted(file))

\* C4 amended: add_order, update_order and delete_order keep the persisted
\* ids unique provided add_order is given a record whose id is not persisted
\* yet and update_order a record that carries the id it replaces; the store
\* itself checks neither.
C4_FreshIdsStayUnique ==
    ( /\ call.op \in {"add_order", "update_order", "delete_order"}
      /\ UniqueIds(Persisted(call.before))
      /\ call.op = "add_order" => call.arg.id \notin Ids(Persisted(call.before))
      /\ call.op = "update_order" => call.arg.id = call.order_id )
    => UniqueIds(Persisted(file))

\* C4 witness: a record replaced through update_order beside another record.
C4_Witness ==
    /\ call.op = "update_order"
    /\ call.ret = TRUE
    /\ call.arg.id = call.order_id
    /\ Len(Persisted(file)) = 2
    /\ UniqueIds(Persisted(file))
    /\ file # call.before

\* C5 as claimed: whatever is persisted, add_order(o) followed by
\* get_order(o.id) returns a record equal to o.
C5_AddThenGetReturnsOrder ==
    call.op = "add_order" => get_order(file, call.arg.id).ret = call.arg

\* C5 amended: add_order(o) followed by get_order(o.id) returns a record
\* equal to o provided no persisted record had the id of o before the call;
\* otherwise get_order returns the first record of that id, the older one.
C5_AddFreshThenGetReturnsOrder ==
    (call.op = "add_order" /\ call.arg.id \notin Ids(Persisted(call.before)))
    => /\ get_order(file, call.arg.id).ret = call.arg
       /\ get_order(file, call.arg.id).file = file

\* C5 witness: an order added behind another one is found again.
C5_Witness ==
    /\ call.op = "add_order"
    /\ Len(Persisted(call.before)) = 1
    /\ call.arg.id \notin Ids(Persisted(call.before))
    /\ get_order(file, call.arg.id).ret = call.arg

\* C6: when the file exists and is not JSON, load_orders returns the empty
\* list, raises nothing, and leaves the file as it was.
C6_UnparsableLoadKeepsFile ==
    (call.op = "load_orders" /\ call.before.exists /\ ~call.before.parsable)
    => /\ call.ret = <<>>
       /\ call.exc.raised = "none"
       /\ call.warned
       /\ file = call.before

\* C6 witness: load_orders has run on a garbled file.
C6_Witness ==
    /\ call.op = "load_orders"
    /\ call.before = GarbledFile(2)
    /\ call.ret = <<>>
    /\ file = GarbledFile(2)

\* the file after a call that only read it: as it was, or, if the path was
\* absent, holding the empty list that ensure_storage_exists writes
OnlyRead(before, after) ==
    after = before \/ (~before.exists /\ after = json_dump(<<>>))

\* C11: for every persisted collection and every id that matches none of its
\* records, update_order returns False and the persisted collection is the
\* same afterwards: save_orders is not called, a garbled file stays garbled.
C11_UpdateUnknownIdKeepsStore ==
    (call.op = "update_order" /\ call.order_id \notin Ids(Persisted(call.before)))
    => /\ call.ret = FALSE
       /\ Persisted(file) = Persisted(call.before)
       /\ OnlyRead(call.before, file)

\* C11 witness: update_order found no record of the id beside another record.
C11_Witness ==
    /\ call.op = "update_order"
    /\ Len(Persisted(call.before)) = 1
    /\ call.order_id \notin Ids(Persisted(call.before))
    /\ call.ret = FALSE
    /\ file = call.before

\* C12: after delete_order(id) a following get_order(id) returns None,
\* whatever was persisted; delete_order returns True exactly when at least
\* one record of that id was persisted before the call.
C12_DeleteThenGetIsAbsent ==
    call.op = "delete_order" =>
        /\ get_order(file, call.order_id).ret = None
        /\ get_order(file, call.order_id).file = file
        /\ call.ret = TRUE <=> call.order_id \in Ids(Persisted(call.before))

\* C12 witness: two records of one id were persisted; both are gone.
C12_Witness ==
    /\ call.op = "delete_order"
    /\ call.ret = TRUE
    /\ Len(Persisted(call.before)) = 2
    /\ Ids(Persisted(call.before)) = {call.order_id}
    /\ get_order(file, call.order_id).ret = None

\* C19: when update_order finds a match it returns True, and the persisted
\* collection afterwards has the same length and the same records at the same
\* positions as before, except that the first record of the id is replaced at
\* its position by the updated order.
C19_UpdateReplacesFirstMatchInPlace ==
    (/\ call.op = "update_order"
     /\ call.order_id \in Ids(Persisted(call.before)))
        => LET before == Persisted(call.before)
               after == Persisted(file)
           IN  /\ call.ret = TRUE
               /\ Len(after) = Len(before)
               /\ \A i \in 1..Len(before) :
                    after[i] =
                      IF /\ before[i].id = call.order_id
                         /\ \A j \in 1..(i - 1) : before[j].id # call.order_id
                      THEN call.arg
                      ELSE before[i]

\* C19 witness: two records of the id were stored; the first was replaced by a
\* different order, the second kept.
C19_Witness ==
    /\ call.op = "update_order"
    /\ Len(Persisted(call.before)) = 2
    /\ \A i \in 1..2 : Persisted(call.before)[i].id = call.order_id
    /\ call.arg # Persisted(call.before)[1]
    /\ call.arg # Persisted(call.before)[2]
    /\ Persisted(file) = <<call.arg, Persisted(call.before)[2]>>

\* the positions of the records whose id is not order_id
Others(orders, order_id) == {i \in 1..Len(orders) : orders[i].id # order_id}

C21_UpdateThenGetReturnsOrder ==
    (call.op = "update_order" /\ call.ret = TRUE)
        => get_order(file, call.order_id).ret = call.arg

\* C21, amended: whenever update_order returns True and the updated order
\* carries the id it was stored under, a get_order of that id that follows at
\* once returns the updated order, and reads without writing.
C21_UpdateSameIdThenGetReturnsOrder ==
    (/\ call.op = "update_order"
     /\ call.ret = TRUE
     /\ call.arg.id = call.order_id)
        => /\ get_order(file, call.order_id).ret = call.arg
           /\ get_order(file, call.order_id).file = file

\* C21 witness: a stored order was replaced by a different order of the same
\* id, beside another stored record.
C21_Witness ==
    /\ call.op = "update_order"
    /\ call.ret = TRUE
    /\ call.arg.id = call.order_id
    /\ Len(Persisted(call.before)) = 2
    /\ get_order(call.before, call.order_id).ret # call.arg
    /\ get_order(file, call.order_id).ret = call.arg

\* the file exists and its text is not JSON
Unparsable(f) == f.exists /\ ~f.parsable

\* C22: while the file is unparsable, load_orders, get_order, update_order and
\* delete_order return the empty list, None and False and leave the file as it
\* is, so it stays unparsable through any sequence of them; only add_order and
\* save_orders replace the text, and after add_order(o) the persisted
\* collection is exactly the one-element list of o.
C22_UnparsableSurvivesAllButWrites ==
    (call.op # "none" /\ Unparsable(call.before))
        => /\ call.op = "load_orders" => call.ret = <<>> /\ file = call.before
           /\ call.op = "get_order" => call.ret = None /\ file = call.before
           /\ call.op = "update_order" => call.ret = FALSE /\ file = call.before
           /\ call.op = "delete_order" => call.ret = FALSE /\ file = call.before
           /\ file # call.before => call.op \in {"add_order", "save_orders"}
           /\ call.op = "add_order" =>
                /\ file.exists /\ file.parsable
                /\ Persisted(file) = <<call.arg>>
           /\ call.op = "save_orders" =>
                /\ file.exists /\ file.parsable
                /\ Persisted(file) = call.arg

\* C22 witness: add_order has run on an unparsable file and replaced it by the
\* list of the one order added.
C22_Witness ==
    /\ call.op = "add_order"
    /\ call.before = GarbledFile(2)
    /\ file.parsable
    /\ Persisted(file) = <<call.arg>>

-----------------------------------------------------------------------------
(* Claims about the program, checked under Spec *)

Failed(l) == l.outcome \in {"rejected", "refused", "not_found"}

\* C7: a flow that fails (create_order raises ValueError in the create flow,
\* update_order_status raises in the update flow, an id is not found) leaves
\* the persisted collection as it was: the file is untouched, or was absent
\* and now holds the empty list; and the program is back at its menu.
C7_FailedFlowKeepsStore ==
    [][Failed(last') =>
          /\ Persisted(file') = Persisted(file)
          /\ file' = file \/ (~file.exists /\ file' = json_dump(<<>>))
          /\ last'.outcome = "rejected" => file' = file
          /\ pc' = "menu"]_vars

\* C7 witness: with an order persisted, a create flow was rejected.
C7_Witness ==
    /\ last = [flow |-> "create_new_order", outcome |-> "rejected"]
    /\ pc = "menu"
    /\ Len(Persisted(file)) = 1

\* every persisted order stands as many states past PENDING as it has had
\* successful advances
StatusCountsAdvances ==
    \A i \in 1..Len(Persisted(file)) :
        /\ Persisted(file)[i].status \in Range(ORDER_STATES)
        /\ StatusIdx(Persisted(file)[i]) = advances[Persisted(file)[i].id]

\* a record that is PENDING after a step was PENDING before it, or is new
\* and the step was a creation
PendingOnlyByCreation ==
    \A i \in 1..Len(Persisted(file')) :
        LET o == Persisted(file')[i]
        IN  o.status = "PENDING" =>
                \/ \E j \in 1..Len(Persisted(file)) :
                       Persisted(file)[j].id = o.id /\ Persisted(file)[j].status = "PENDING"
                \/ o.id \notin Ids(Persisted(file)) /\ last'.outcome = "created"

\* C10: the lifecycle is the chain PENDING, PREPARING, READY, DELIVERED: an
\* order is PENDING only from its creation on, and each successful advance
\* moves it exactly one state on, so that DELIVERED is reached after exactly
\* three advances.
C10_LinearLifecycle == []StatusCountsAdvances /\ [][PendingOnlyByCreation]_vars

\* C10 witness: an order that reached DELIVERED, with its three advances.
C10_Witness ==
    /\ pc = "menu"
    /\ \E i \in 1..Len(Persisted(file)) :
          /\ Persisted(file)[i].status = "DELIVERED"
          /\ advances[Persisted(file)[i].id] = 3

\* the status one step ahead, read off the lifecycle of the specification
StepAhead ==
    [PENDING |-> "PREPARING", PREPARING |-> "READY", READY |-> "DELIVERED"]

\* C18: DELIVERED is terminal. The update-status flow run on a persisted order
\* whose status is DELIVERED reports that there is no next status and performs
\* no write: the persisted record and the rest of the collection are as before.
\* For each of the three other statuses the flow, when confirmed, persists the
\* status exactly one step ahead (at the record's position, every other field
\* and every other record kept); when declined it writes nothing.
C18_DeliveredIsTerminal ==
    [][(pc = "menu" /\ last'.flow = "update_status")
        => LET g == get_order(file, last'.order_id).ret
           IN  IF g = None
               THEN last'.outcome = "not_found"
               ELSE IF g.status = "DELIVERED"
               THEN /\ last'.outcome = "final"
                    /\ file' = file
                    /\ pc' = "menu"
               ELSE /\ last'.outcome \in {"declined", "updated"}
                    /\ pc' = "menu"
                    /\ last'.outcome = "declined" => file' = file
                    /\ last'.outcome = "updated" =>
                         /\ Len(Persisted(file')) = Len(Persisted(file))
                         /\ \A i \in 1..Len(Persisted(file)) :
                              Persisted(file')[i] =
                                IF Persisted(file)[i].id = last'.order_id
                                THEN [Persisted(file)[i] EXCEPT
                                        !.status = StepAhead[@]]
                                ELSE Persisted(file)[i]]_vars

\* the flow has just been run on a DELIVERED order stored beside another order
C18_Witness ==
    /\ last.flow = "update_status"
    /\ last.outcome = "final"
    /\ Len(Persisted(file)) = 2
    /\ get_order(file, last.order_id).ret # None
    /\ get_order(file, last.order_id).ret.status = "DELIVERED"

-----------------------------------------------------------------------------
(* Claims about two processes, checked under SpecRace *)

Returned(p) == ppc[p] = "idle" /\ padds[p] > 0

\* C3: the read-modify-write of add_order is not transactional. The write of
\* a process replaces the file by the list that process read earlier plus
\* its own order, whatever the file holds by then: an order the other
\* process has persisted since that read is no longer persisted afterwards.
\* Nothing holds the second process back while the first stands between its
\* read and its write.
C3_WriteReplacesWithOwnRead ==
    [][\A p \in Procs : (ppc[p] = "write" /\ ppc'[p] = "idle") =>
          /\ file'.exists /\ file'.parsable
          /\ file'.orders = porders[p]
          /\ \A q \in Procs \ {p} :
                ( /\ porder[q] \in Range(Persisted(file))
                  /\ porder[q] \notin Range(porders[p]) )
                => porder[q] \notin Range(Persisted(file'))]_vars

\* C3 witness: both add_order calls have returned and only one of the two
\* new orders is persisted: the update of process 1 is lost.
C3_Witness ==
    /\ Returned(1)
    /\ Returned(2)
    /\ porder[1] \notin Range(Persisted(file))
    /\ porder[2] \in Range(Persisted(file))
    /\ Len(Persisted(file)) = 2

=============================================================================
